---- MODULE Spec2Model ----
(***************************************************************************)
(* Model of getscrambled/encode.py: encode_blocks, add_data_image, encode. *)
(*                                                                         *)
(* Python lists are heap objects: `heap` maps an address to the list's     *)
(* current contents, and a variable such as `blocks` holds an address, so  *)
(* in-place mutation (np.random.shuffle, list.insert) and aliasing between *)
(* calls are visible.  Text is a sequence of one-character strings.        *)
(***************************************************************************)
EXTENDS Integers, Sequences, FiniteSets, TLC

VARIABLES
    pc,             \* position in the running call ("idle" between calls)
    op,             \* the function the caller invoked
    arg_image,      \* the image the caller passed
    image,          \* parameter `image` of the running function
    bs_arg,         \* parameter `block_size` as passed: <<>> is None, <<s>> is s
    block_size,     \* local `block_size` after line 74-75 (0 before)
    heap,           \* address -> list contents
    blocks,         \* local/parameter `blocks`: an address of heap (0 = unbound)
    entry_blocks,   \* contents of add_data_image's `blocks` when it was called
    grid_call,      \* arguments create_block_grid was called with (<<>> = not called)
    arrange_call,   \* arguments arrange_blocks was called with (<<>> = not called)
    encoded_image,  \* local `encoded_image` of encode_blocks
    json_data,      \* local `json_data` of add_data_image
    hide_call,      \* payloads handed to stegano.lsb.hide in this call
    steps,          \* block-processing steps run so far in this call, in order
    ret_blocks,     \* returned list (address; 0 = none)
    ret_image,      \* returned image
    error,          \* error kind that reached the caller ("" = none)
    kept,           \* address of a list an earlier call returned, held by the caller
    kept_val,       \* its contents at the time it was returned
    draw,           \* the random draws np.random.shuffle made in this call
    ncalls          \* calls made so far

vars == <<pc, op, arg_image, image, bs_arg, block_size, heap, blocks, entry_blocks,
          grid_call, arrange_call, encoded_image, json_data, hide_call, steps,
          ret_blocks, ret_image, error, kept, kept_val, draw, ncalls>>

-----------------------------------------------------------------------------
(* Bounds of the model *)

MaxDim == 12        \* image widths and heights range over 1..MaxDim
MaxGrid == 4        \* only calls whose block grid has at most MaxGrid cells
MaxPairs == 2       \* caller-built blocks lists have at most MaxPairs pairs
MaxCalls == 2       \* calls per behaviour when the caller keeps returned lists

(* constants.BLOCK_SIZE: the process-wide default block size *)
BLOCK_SIZE == 8

None == "None"
Formats == {"PNG", None, "JPEG"}
NoImage == [format |-> None, size |-> <<0, 0>>, perm |-> <<>>, bs |-> 0, payload |-> <<>>]

(* An in-memory image as the caller supplies it: declared format and size. *)
(* perm/bs describe the pixel content (which source block sits in which    *)
(* cell); payload is the text carried in the least significant bits.       *)
SourceImage(f, w, h) ==
    [format |-> f, size |-> <<w, h>>, perm |-> <<>>, bs |-> 0, payload |-> <<>>]

-----------------------------------------------------------------------------
(* Helpers *)

CeilDiv(a, b) == (a + b - 1) \div b

RECURSIVE SumLens(_)
SumLens(ss) == IF ss = <<>> THEN 0 ELSE Len(Head(ss)) + SumLens(Tail(ss))

RECURSIVE Concat(_)
Concat(ss) ==
    IF ss = <<>> THEN <<>>
    ELSE IF Len(ss) = 1 THEN ss[1]
    ELSE LET h == Len(ss) \div 2
         IN  Concat(SubSeq(ss, 1, h)) \o Concat(SubSeq(ss, h + 1, Len(ss)))

Range(s) == {s[k] : k \in 1..Len(s)}

-----------------------------------------------------------------------------
(* shared.create_block_grid: block origins in row-major order, spaced      *)
(* block_size apart, covering [0,width) x [0,height); a trailing partial   *)
(* row or column is enumerated too.  Returns a new list.                   *)

GridSize(size, bsz) == CeilDiv(size[1], bsz) * CeilDiv(size[2], bsz)

create_block_grid(width, height, bsz) ==
    LET cols == CeilDiv(width, bsz)
    IN  [k \in 1..GridSize(<<width, height>>, bsz) |->
            << ((k - 1) % cols) * bsz, ((k - 1) \div cols) * bsz >>]

(* np.random.shuffle on a Python list: for i = n-1 down to 1 draw j in     *)
(* 0..i and swap x[i], x[j], in place.  Indices are 1-based here; js[i] is *)
(* the draw made for position i.                                           *)

SwapOverwrite(x, i, j) == [x EXCEPT ![i] = x[j]]

Swap(x, i, j) == [x EXCEPT ![i] = x[j], ![j] = x[i]]

RECURSIVE ShuffleFrom(_, _, _)
ShuffleFrom(x, i, js) ==
    IF i < 2 THEN x ELSE ShuffleFrom(Swap(x, i, js[i]), i - 1, js)

Draws(n) == {js \in [2..n -> 1..n] : \A i \in 2..n : js[i] <= i}

shuffle(x, js) == ShuffleFrom(x, Len(x), js)

(* shared.arrange_blocks: cell i of the new image gets the source block at *)
(* permutation[i]; same size and format; fails with ShapeMismatch when the *)
(* permutation's length is not the grid size.  Does not change its inputs. *)

ShapeMismatch(img, bsz, perm) == Len(perm) # GridSize(img.size, bsz)

arrange_blocks(img, bsz, perm) ==
    [format |-> img.format, size |-> img.size, perm |-> perm, bs |-> bsz,
     payload |-> <<>>]

-----------------------------------------------------------------------------
(* Text: str(int) and json.dumps of a list of ints *)

DigitChars == <<"0", "1", "2", "3", "4", "5", "6", "7", "8", "9">>

RECURSIVE NatToStr(_)
NatToStr(n) ==
    IF n < 10 THEN <<DigitChars[n + 1]>>
    ELSE NatToStr(n \div 10) \o <<DigitChars[(n % 10) + 1]>>

IntToStr(n) == IF n < 0 THEN <<"-">> \o NatToStr(-n) ELSE NatToStr(n)

RECURSIVE JoinInts(_, _)
JoinInts(ns, sep) ==
    IF ns = <<>> THEN <<>>
    ELSE IF Len(ns) = 1 THEN IntToStr(ns[1])
    ELSE LET h == Len(ns) \div 2
         IN  JoinInts(SubSeq(ns, 1, h), sep) \o sep
                \o JoinInts(SubSeq(ns, h + 1, Len(ns)), sep)

(* json.dumps(list, separators=(item_sep, key_sep)) for a list of ints *)
json_dumps(ns, item_sep) == <<"[">> \o JoinInts(ns, item_sep) \o <<"]">>

(* add_data_image lines 54-57: number_list; int(x) of an int is that int *)
NumberListYX(bl) == Concat([k \in 1..Len(bl) |-> <<bl[k][2], bl[k][1]>>])

number_list(bl) == Concat([k \in 1..Len(bl) |-> <<bl[k][1], bl[k][2]>>])

(* add_data_image line 59 *)
SerializeDefaultSeparators(bl) == json_dumps(number_list(bl), <<",", " ">>)

SerializeYX(bl) == json_dumps(NumberListYX(bl), <<",">>)

serialize(bl) == json_dumps(number_list(bl), <<",">>)

(* stegano.lsb.hide: the text hidden is "<len>:<message>", 8 bits per      *)
(* character padded to a multiple of 3, one bit per colour channel of an   *)
(* RGB pixel; it raises Exception when that exceeds 3 bits per pixel.      *)

HideMessage(msg) == IntToStr(Len(msg)) \o <<":">> \o msg

MessageBits(msg) ==
    LET b == 8 * Len(HideMessage(msg)) IN b + ((3 - (b % 3)) % 3)

Fits(img, msg) == MessageBits(msg) <= img.size[1] * img.size[2] * 3

hide(img, msg) == [img EXCEPT !.payload = msg]

-----------------------------------------------------------------------------
(* The pieces of encode.py *)

(* lines 74-75: block_size defaults to C.BLOCK_SIZE *)
ResolveAlwaysDefault(bs) == BLOCK_SIZE

ResolveBlockSize(bs) == IF bs = <<>> THEN BLOCK_SIZE ELSE bs[1]

(* lines 50 and 80: image.format not in ("PNG", None) raises *)
FormatAcceptedPngOnly(img) == img.format = "PNG"

FormatAccepted(img) == img.format \in {"PNG", None}

(* list.insert(0, v) *)
ListInsert0(l, v) == <<v>> \o l

(* lines 91-92: blocks.insert(0, (block_size,)*2); blocks.insert(0, image.size) *)
InsertSentinelsSizeLast(bl, size, bsz) ==
    ListInsert0(ListInsert0(bl, size), <<bsz, bsz>>)

InsertSentinelsNoSize(bl, size, bsz) == ListInsert0(bl, <<bsz, bsz>>)

InsertSentinels(bl, size, bsz) ==
    ListInsert0(ListInsert0(bl, <<bsz, bsz>>), size)

-----------------------------------------------------------------------------
(* Inputs *)

Dims == 1..MaxDim
BlockSizeArgs == {<<>>} \cup {<<s>> : s \in Dims}
Images == {SourceImage(f, w, h) : f \in Formats, w \in Dims, h \in Dims}

(* images for direct add_data_image calls: square, every format *)
SquareImages == {SourceImage(f, w, w) : f \in Formats, w \in Dims}

(* a narrower set of images and block sizes for runs of several calls *)
FewDims == {MaxDim \div 2, MaxDim}
FewImages == {SourceImage(f, w, h) : f \in Formats, w \in FewDims, h \in FewDims}
FewBlockSizeArgs == {<<>>} \cup {<<s>> : s \in FewDims}

PairValues == {0, 12, -3}
Pairs == PairValues \X PairValues
PairLists == UNION {[1..n -> Pairs] : n \in 0..MaxPairs}

InBounds(img, bs) == GridSize(img.size, ResolveBlockSize(bs)) <= MaxGrid

-----------------------------------------------------------------------------
Init ==
    /\ pc = "idle"
    /\ op = ""
    /\ arg_image = NoImage
    /\ image = NoImage
    /\ bs_arg = <<>>
    /\ block_size = 0
    /\ heap = <<>>
    /\ blocks = 0
    /\ entry_blocks = <<>>
    /\ grid_call = <<>>
    /\ arrange_call = <<>>
    /\ encoded_image = NoImage
    /\ json_data = <<>>
    /\ hide_call = <<>>
    /\ steps = <<>>
    /\ ret_blocks = 0
    /\ ret_image = NoImage
    /\ error = ""
    /\ kept = 0
    /\ kept_val = <<>>
    /\ draw = <<>>
    /\ ncalls = 0

locals == <<block_size, blocks, entry_blocks, grid_call, arrange_call,
            encoded_image, json_data, hide_call, steps, ret_blocks, ret_image,
            error, draw>>
caller == <<kept, kept_val, ncalls>>

(* the caller invokes encode_blocks(img, bs) or encode(img, bs) *)
CallBlocks(fn, imgs, bss) ==
    /\ pc = "idle"
    /\ ncalls < MaxCalls
    /\ \E img \in imgs, bs \in bss :
        /\ InBounds(img, bs)
        /\ image' = img
        /\ arg_image' = img
        /\ bs_arg' = bs
    /\ op' = fn
    /\ pc' = "eb_resolve"
    /\ UNCHANGED <<heap, locals, caller>>

(* the caller invokes add_data_image(img, bl) with a list it built *)
CallAddDataImage(imgs, lists) ==
    /\ pc = "idle"
    /\ ncalls < MaxCalls
    /\ \E img \in imgs, bl \in lists :
        /\ image' = img
        /\ arg_image' = img
        /\ heap' = Append(heap, bl)
        /\ blocks' = Len(heap) + 1
        /\ entry_blocks' = bl
    /\ op' = "add_data_image"
    /\ pc' = "adi_gate"
    /\ UNCHANGED <<bs_arg, block_size, grid_call, arrange_call, encoded_image,
                   json_data, hide_call, steps, ret_blocks, ret_image, error,
                   draw, caller>>

(* the caller invokes add_data_image(img, l) with a list an earlier call returned *)
CallAddDataImageKept(imgs) ==
    /\ pc = "idle"
    /\ ncalls < MaxCalls
    /\ kept # 0
    /\ \E img \in imgs : image' = img /\ arg_image' = img
    /\ blocks' = kept
    /\ entry_blocks' = heap[kept]
    /\ op' = "add_data_image"
    /\ pc' = "adi_gate"
    /\ UNCHANGED <<bs_arg, block_size, heap, grid_call, arrange_call,
                   encoded_image, json_data, hide_call, steps, ret_blocks,
                   ret_image, error, draw, caller>>

Raise(kind) ==
    /\ pc' = "raised"
    /\ error' = kind

(* encode_blocks, lines 74-75 *)
EB_Resolve ==
    /\ pc = "eb_resolve"
    /\ block_size' = ResolveBlockSize(bs_arg)
    /\ pc' = "eb_gate"
    /\ UNCHANGED <<op, arg_image, image, bs_arg, heap, blocks, entry_blocks, grid_call,
                   arrange_call, encoded_image, json_data, hide_call, steps,
                   ret_blocks, ret_image, error, draw, caller>>

(* encode_blocks, lines 80-81 *)
EB_Gate ==
    /\ pc = "eb_gate"
    /\ IF FormatAccepted(image)
         THEN pc' = "eb_grid" /\ error' = error
         ELSE Raise("ImageFormatError")
    /\ UNCHANGED <<op, arg_image, image, bs_arg, block_size, heap, blocks, entry_blocks,
                   grid_call, arrange_call, encoded_image, json_data, hide_call,
                   steps, ret_blocks, ret_image, draw, caller>>

(* encode_blocks, line 84 *)
EB_Grid ==
    /\ pc = "eb_grid"
    /\ heap' = Append(heap, create_block_grid(image.size[1], image.size[2], block_size))
    /\ blocks' = Len(heap) + 1
    /\ grid_call' = Append(grid_call, <<image.size[1], image.size[2], block_size>>)
    /\ steps' = Append(steps, "grid")
    /\ pc' = "eb_shuffle"
    /\ UNCHANGED <<op, arg_image, image, bs_arg, block_size, entry_blocks, arrange_call,
                   encoded_image, json_data, hide_call, ret_blocks, ret_image,
                   error, draw, caller>>

(* encode_blocks, line 87 *)
EB_Shuffle ==
    /\ pc = "eb_shuffle"
    /\ \E js \in Draws(Len(heap[blocks])) :
        /\ heap' = [heap EXCEPT ![blocks] = shuffle(@, js)]
        /\ draw' = js
    /\ steps' = Append(steps, "shuffle")
    /\ pc' = "eb_arrange"
    /\ UNCHANGED <<op, arg_image, image, bs_arg, block_size, blocks, entry_blocks, grid_call,
                   arrange_call, encoded_image, json_data, hide_call, ret_blocks,
                   ret_image, error, caller>>

ArrangeWith(perm) ==
    /\ arrange_call' = Append(arrange_call,
            [image |-> image, block_size |-> block_size, permutation |-> perm])
    /\ steps' = Append(steps, "arrange")
    /\ IF ShapeMismatch(image, block_size, perm)
         THEN Raise("ShapeMismatch") /\ encoded_image' = encoded_image
         ELSE /\ encoded_image' = arrange_blocks(image, block_size, perm)
              /\ pc' = "eb_insert"
              /\ error' = error

(* (lines 91-92 moved above line 89) *)
EB_ArrangeAfterInsert ==
    /\ pc = "eb_arrange"
    /\ heap' = [heap EXCEPT ![blocks] = InsertSentinels(@, image.size, block_size)]
    /\ ArrangeWith(heap'[blocks])
    /\ UNCHANGED <<op, arg_image, image, bs_arg, block_size, blocks, entry_blocks,
                   grid_call, json_data, hide_call, ret_blocks, ret_image, draw,
                   caller>>

(* encode_blocks, line 89 *)
EB_Arrange ==
    /\ pc = "eb_arrange"
    /\ ArrangeWith(heap[blocks])
    /\ UNCHANGED <<op, arg_image, image, bs_arg, block_size, heap, blocks, entry_blocks,
                   grid_call, json_data, hide_call, ret_blocks, ret_image, draw,
                   caller>>

(* encode_blocks, lines 91-92 *)
EB_Insert ==
    /\ pc = "eb_insert"
    /\ heap' = [heap EXCEPT ![blocks] = InsertSentinels(@, image.size, block_size)]
    /\ steps' = Append(steps, "sentinels")
    /\ pc' = "eb_return"
    /\ UNCHANGED <<op, arg_image, image, bs_arg, block_size, blocks, entry_blocks, grid_call,
                   arrange_call, encoded_image, json_data, hide_call, ret_blocks,
                   ret_image, error, draw, caller>>

(* encode_blocks, line 94, called directly *)
EB_Return ==
    /\ pc = "eb_return"
    /\ op = "encode_blocks"
    /\ ret_blocks' = blocks
    /\ ret_image' = encoded_image
    /\ pc' = "returned"
    /\ UNCHANGED <<op, arg_image, image, bs_arg, block_size, heap, blocks, entry_blocks,
                   grid_call, arrange_call, encoded_image, json_data, hide_call,
                   steps, error, draw, caller>>

(* encode, lines 106-107: add_data_image(encoded_img, blocks) *)
Encode_CallAddDataImage ==
    /\ pc = "eb_return"
    /\ op = "encode"
    /\ image' = encoded_image
    /\ entry_blocks' = heap[blocks]
    /\ pc' = "adi_gate"
    /\ UNCHANGED <<op, arg_image, bs_arg, block_size, heap, blocks, grid_call, arrange_call,
                   encoded_image, json_data, hide_call, steps, ret_blocks,
                   ret_image, error, draw, caller>>

(* add_data_image, lines 50-51 *)
ADI_Gate ==
    /\ pc = "adi_gate"
    /\ IF FormatAccepted(image)
         THEN pc' = "adi_serialize" /\ error' = error
         ELSE Raise("ImageFormatError")
    /\ UNCHANGED <<op, arg_image, image, bs_arg, block_size, heap, blocks, entry_blocks,
                   grid_call, arrange_call, encoded_image, json_data, hide_call,
                   steps, ret_blocks, ret_image, draw, caller>>

(* (the loop of lines 54-57 written as: while blocks: x, y = blocks.pop(0)) *)
ADI_SerializeConsuming ==
    /\ pc = "adi_serialize"
    /\ json_data' = serialize(heap[blocks])
    /\ heap' = [heap EXCEPT ![blocks] = <<>>]
    /\ steps' = Append(steps, "serialize")
    /\ pc' = "adi_hide"
    /\ UNCHANGED <<op, arg_image, image, bs_arg, block_size, blocks, entry_blocks,
                   grid_call, arrange_call, encoded_image, hide_call, ret_blocks,
                   ret_image, error, draw, caller>>

(* add_data_image, lines 54-59 *)
ADI_Serialize ==
    /\ pc = "adi_serialize"
    /\ json_data' = serialize(heap[blocks])
    /\ steps' = Append(steps, "serialize")
    /\ pc' = "adi_hide"
    /\ UNCHANGED <<op, arg_image, image, bs_arg, block_size, heap, blocks, entry_blocks,
                   grid_call, arrange_call, encoded_image, hide_call, ret_blocks,
                   ret_image, error, draw, caller>>

(* add_data_image, line 61 *)
ADI_Hide ==
    /\ pc = "adi_hide"
    /\ hide_call' = Append(hide_call, json_data)
    /\ steps' = Append(steps, "embed")
    /\ IF Fits(image, json_data)
         THEN /\ ret_image' = hide(image, json_data)
              /\ pc' = "returned"
              /\ error' = error
         ELSE Raise("Exception") /\ ret_image' = ret_image
    /\ UNCHANGED <<op, arg_image, image, bs_arg, block_size, heap, blocks, entry_blocks,
                   grid_call, arrange_call, encoded_image, json_data, ret_blocks,
                   draw, caller>>

(* the call is over and the caller drops everything it got *)
Forget ==
    /\ pc \in {"returned", "raised"}
    /\ pc' = "idle"
    /\ op' = ""
    /\ arg_image' = NoImage
    /\ image' = NoImage
    /\ bs_arg' = <<>>
    /\ block_size' = 0
    /\ heap' = <<>>
    /\ blocks' = 0
    /\ entry_blocks' = <<>>
    /\ grid_call' = <<>>
    /\ arrange_call' = <<>>
    /\ encoded_image' = NoImage
    /\ json_data' = <<>>
    /\ hide_call' = <<>>
    /\ steps' = <<>>
    /\ ret_blocks' = 0
    /\ ret_image' = NoImage
    /\ error' = ""
    /\ draw' = <<>>
    /\ UNCHANGED caller

(* the call is over and the caller keeps the list it returned, if any;     *)
(* lists nothing refers to any more are dropped from the heap (the list    *)
(* kept moves to address 1)                                                *)
Keep ==
    /\ pc \in {"returned", "raised"}
    /\ pc' = "idle"
    /\ op' = ""
    /\ arg_image' = NoImage
    /\ image' = NoImage
    /\ bs_arg' = <<>>
    /\ block_size' = 0
    /\ blocks' = 0
    /\ entry_blocks' = <<>>
    /\ grid_call' = <<>>
    /\ arrange_call' = <<>>
    /\ encoded_image' = NoImage
    /\ json_data' = <<>>
    /\ hide_call' = <<>>
    /\ steps' = <<>>
    /\ ret_blocks' = 0
    /\ ret_image' = NoImage
    /\ error' = ""
    /\ draw' = <<>>
    /\ LET live == IF ret_blocks # 0 THEN ret_blocks ELSE kept
       IN  /\ heap' = IF live = 0 THEN <<>> ELSE <<heap[live]>>
           /\ kept' = IF live = 0 THEN 0 ELSE 1
           /\ kept_val' = IF ret_blocks # 0 THEN heap[ret_blocks] ELSE kept_val
    /\ ncalls' = ncalls + 1

Steps ==
    \/ EB_Resolve \/ EB_Gate \/ EB_Grid \/ EB_Shuffle \/ EB_Arrange \/ EB_Insert
    \/ EB_Return \/ Encode_CallAddDataImage
    \/ ADI_Gate \/ ADI_Serialize \/ ADI_Hide

(* single calls over the whole input range *)
Next ==
    \/ CallBlocks("encode_blocks", Images, BlockSizeArgs)
    \/ CallBlocks("encode", Images, BlockSizeArgs)
    \/ CallAddDataImage(SquareImages, PairLists)
    \/ Steps
    \/ Forget

Spec == Init /\ [][Next]_vars

(* runs of up to MaxCalls calls in which the caller keeps returned lists *)
NextCalls ==
    \/ CallBlocks("encode_blocks", FewImages, FewBlockSizeArgs)
    \/ CallBlocks("encode", FewImages, FewBlockSizeArgs)
    \/ CallAddDataImageKept(FewImages)
    \/ Steps
    \/ Keep

SpecCalls == Init /\ [][NextCalls]_vars

-----------------------------------------------------------------------------
(* Reading a payload back: the decode side's deserialize.  The payload is  *)
(* parsed as a JSON array of integers (blanks between tokens are skipped), *)
(* MalformedPayload if it has an odd number of integers or fewer than 4;   *)
(* first pair = image size, second pair = block size, the rest = the       *)
(* permutation.                                                            *)

(* the tokens between the commas of s *)
Split(s) ==
    LET n == Len(s)
        commas == {i \in 1..n : s[i] = ","}
        tok(i) == Cardinality({j \in commas : j < i}) + 1
    IN  [k \in 1..(Cardinality(commas) + 1) |->
            LET idx == SelectSeq([i \in 1..n |-> i],
                                 LAMBDA i : s[i] # "," /\ tok(i) = k)
            IN  [m \in 1..Len(idx) |-> s[idx[m]]]]

DigitVal(c) == CHOOSE d \in 0..9 : DigitChars[d + 1] = c

RECURSIVE StrToNat(_)
StrToNat(s) ==
    IF s = <<>> THEN 0
    ELSE StrToNat(SubSeq(s, 1, Len(s) - 1)) * 10 + DigitVal(s[Len(s)])

StrToInt(s) == IF Head(s) = "-" THEN -StrToNat(Tail(s)) ELSE StrToNat(s)

Tokens(payload) ==
    IF Len(payload) <= 2 THEN <<>>
    ELSE Split(SubSeq(payload, 2, Len(payload) - 1))

json_loads(payload) ==
    LET toks == Tokens(SelectSeq(payload, LAMBDA c : c # " "))
    IN  [k \in 1..Len(toks) |-> StrToInt(toks[k])]

Malformed == [image_size |-> <<>>, block_size |-> -1, permutation |-> <<>>]

deserialize(payload) ==
    LET ns == json_loads(payload)
    IN  IF Len(ns) % 2 = 1 \/ Len(ns) < 4 THEN Malformed
        ELSE [image_size |-> <<ns[1], ns[2]>>,
              block_size |-> ns[3],
              permutation |-> [k \in 1..((Len(ns) - 4) \div 2) |->
                                  <<ns[2 * k + 3], ns[2 * k + 4]>>]]

-----------------------------------------------------------------------------
(* Properties *)

AfterGate == pc \notin {"idle", "eb_resolve", "eb_gate", "adi_gate"}
NothingRan ==
    /\ steps = <<>> /\ grid_call = <<>> /\ draw = <<>> /\ arrange_call = <<>>
    /\ json_data = <<>> /\ hide_call = <<>>

(* C1: an image whose format is neither "PNG" nor None makes encode_blocks, *)
(* add_data_image and encode end in ImageFormatError, raised before any     *)
(* grid, shuffle, arrangement, serialization or embedding step has run; an  *)
(* image whose format is "PNG" or None never gets ImageFormatError.         *)
C1_GateEager ==
    /\ (arg_image.format \notin {"PNG", None} /\ AfterGate)
          => (pc = "raised" /\ error = "ImageFormatError")
    /\ error = "ImageFormatError"
          => (arg_image.format \notin {"PNG", None} /\ NothingRan)
    /\ (op # "" /\ arg_image.format \in {"PNG", None}) => error # "ImageFormatError"

C1_Witness ==
    /\ pc = "raised" /\ op = "encode" /\ error = "ImageFormatError"
    /\ arg_image.format = "JPEG"

ExpectedS == IF bs_arg = <<>> THEN BLOCK_SIZE ELSE bs_arg[1]

(* C2: the list encode_blocks returns is the image size (W,H), then (S,S),  *)
(* then exactly the permutation that was passed to the arranger to produce  *)
(* the returned image, in the same order; its length is grid size + 2.      *)
C2_ReturnedRecord ==
    (pc = "returned" /\ op = "encode_blocks") =>
        LET l == heap[ret_blocks]
            W == arg_image.size[1]
            H == arg_image.size[2]
        IN  /\ Len(arrange_call) = 1
            /\ Len(l) = CeilDiv(W, ExpectedS) * CeilDiv(H, ExpectedS) + 2
            /\ l[1] = <<W, H>>
            /\ l[2] = <<ExpectedS, ExpectedS>>
            /\ SubSeq(l, 3, Len(l)) = arrange_call[1].permutation
            /\ ret_image.perm = arrange_call[1].permutation
            /\ ret_image.size = <<W, H>>

C2_Witness ==
    /\ pc = "returned" /\ op = "encode_blocks"
    /\ Len(heap[ret_blocks]) = 6
    /\ SubSeq(heap[ret_blocks], 3, 6)
          # create_block_grid(arg_image.size[1], arg_image.size[2], ExpectedS)

(* number of characters of the decimal form of n *)
RECURSIVE DecLen(_)
DecLen(n) == IF n < 0 THEN 1 + DecLen(-n) ELSE IF n < 10 THEN 1 ELSE 1 + DecLen(n \div 10)

PayloadChars == Range(DigitChars) \cup {"-", ",", "[", "]"}

(* C3: the payload add_data_image hands to the embedding primitive for      *)
(* blocks = [(a0,b0),...,(ak,bk)] is the one string "[a0,b0,...,ak,bk]":    *)
(* the pairs flattened in list order, x before y, 2*(k+1) integers in       *)
(* decimal, separated by single commas, with no whitespace.                 *)
C3_PayloadFlat ==
    hide_call # <<>> =>
        LET p == hide_call[1]
            bl == entry_blocks
            toks == Tokens(p)
        IN  /\ Len(hide_call) = 1
            /\ p[1] = "[" /\ p[Len(p)] = "]"
            /\ Range(p) \subseteq PayloadChars
            /\ Len(toks) = 2 * Len(bl)
            /\ \A k \in 1..Len(bl) :
                  /\ toks[2 * k - 1] # <<>> /\ StrToInt(toks[2 * k - 1]) = bl[k][1]
                  /\ toks[2 * k] # <<>> /\ StrToInt(toks[2 * k]) = bl[k][2]
                  /\ Len(toks[2 * k - 1]) = DecLen(bl[k][1])
                  /\ Len(toks[2 * k]) = DecLen(bl[k][2])
            /\ Len(p) = 2 + SumLens(toks) + (IF bl = <<>> THEN 0 ELSE 2 * Len(bl) - 1)

C3_Witness ==
    /\ hide_call # <<>> /\ op = "add_data_image"
    /\ entry_blocks = << <<12, -3>>, <<0, 12>> >>
    /\ hide_call[1] = <<"[", "1", "2", ",", "-", "3", ",", "0", ",", "1", "2", "]">>

IsPermutationOf(p, g) ==
    /\ Len(p) = Len(g)
    /\ Range(p) = Range(g)
    /\ Cardinality(Range(p)) = Len(p)

(* C4: the part of encode_blocks' result after the two sentinel pairs is a  *)
(* bijection on the canonical grid: same length, same coordinates, none     *)
(* duplicated or omitted, whatever ordering the shuffle drew.               *)
C4_Bijection ==
    (pc \in {"eb_return", "returned"} /\ op = "encode_blocks") =>
        LET l == heap[blocks]
        IN  IsPermutationOf(SubSeq(l, 3, Len(l)),
                create_block_grid(arg_image.size[1], arg_image.size[2], ExpectedS))

C4_Witness ==
    /\ pc = "returned" /\ op = "encode_blocks"
    /\ Len(heap[ret_blocks]) = 6
    /\ heap[ret_blocks][3] # <<0, 0>>
    /\ heap[ret_blocks][6] = <<0, 0>>

IsRecord(bl) == Len(bl) >= 2 /\ bl[2][1] = bl[2][2]

(* C5: reading back the payload add_data_image produced for the record      *)
(* [image_size, (block_size, block_size)] + permutation gives exactly that  *)
(* image_size, block_size and permutation.                                  *)
C5_RoundTrip ==
    (hide_call # <<>> /\ IsRecord(entry_blocks)) =>
        deserialize(hide_call[1]) =
            [image_size |-> entry_blocks[1],
             block_size |-> entry_blocks[2][1],
             permutation |-> SubSeq(entry_blocks, 3, Len(entry_blocks))]

C5_Witness ==
    /\ hide_call # <<>> /\ op = "encode"
    /\ Len(entry_blocks) = 4
    /\ entry_blocks[1] # entry_blocks[2]
    /\ deserialize(hide_call[1]).permutation = << <<6, 0>>, <<0, 0>> >>

Divides(d, n) == n % d = 0

(* the payload of a 256 x 256 image with block size 32 when the shuffle     *)
(* leaves the grid in canonical order (rev = FALSE) or reverses it          *)
Example256(rev) ==
    LET g == create_block_grid(256, 256, 32)
        perm == IF rev THEN [k \in 1..Len(g) |-> g[Len(g) + 1 - k]] ELSE g
        p == serialize(InsertSentinels(perm, <<256, 256>>, 32))
        d == deserialize(p)
    IN  /\ Len(g) = 64
        /\ Len(json_loads(p)) = 132
        /\ d.image_size = <<256, 256>>
        /\ d.block_size = 32
        /\ d.permutation = perm
        /\ IsPermutationOf(d.permutation, g)
        /\ Fits(SourceImage("PNG", 256, 256), p)

C7_OnlyImageFormatError == error \in {"", "ImageFormatError"}

(* C8: the block size is C.BLOCK_SIZE when none is supplied and the         *)
(* supplied value otherwise, and that one value builds the grid, goes to    *)
(* the arranger and is recorded as the (S,S) sentinel pair.                 *)
C8_BlockSizeConsistent ==
    LET S == IF bs_arg = <<>> THEN BLOCK_SIZE ELSE bs_arg[1]
    IN  /\ grid_call # <<>> => grid_call[1][3] = S
        /\ arrange_call # <<>> => arrange_call[1].block_size = S
        /\ (op \in {"encode", "encode_blocks"} /\ "sentinels" \in Range(steps))
              => heap[blocks][2] = <<S, S>>
        /\ (grid_call # <<>> /\ arrange_call # <<>>)
              => grid_call[1][3] = arrange_call[1].block_size

C8_Witness ==
    /\ pc = "returned" /\ op = "encode_blocks"
    /\ bs_arg = <<6>>
    /\ heap[ret_blocks][2] = <<6, 6>>
    /\ grid_call[1][3] = 6
    /\ Len(heap[ret_blocks]) > 3

(* C9: when arrange_blocks is called no sentinel has been inserted yet: the *)
(* permutation it gets is exactly the grid-size coordinates the grid        *)
(* builder produced for (image size, block size), so ShapeMismatch is never *)
(* raised from encode_blocks or encode.                                     *)
C9_ArrangeBeforeSentinels ==
    /\ error # "ShapeMismatch"
    /\ arrange_call # <<>> =>
        LET a == arrange_call[1]
            g == create_block_grid(arg_image.size[1], arg_image.size[2], ExpectedS)
        IN  /\ Len(a.permutation) = GridSize(arg_image.size, ExpectedS)
            /\ IsPermutationOf(a.permutation, g)
            /\ \A k \in 1..Len(steps) :
                  steps[k] = "sentinels" =>
                      \E m \in 1..(k - 1) : steps[m] = "arrange"
    /\ pc = "eb_arrange" => "sentinels" \notin Range(steps)

C9_Witness ==
    /\ pc = "eb_insert" /\ op = "encode"
    /\ Len(arrange_call[1].permutation) = 4
    /\ error = ""

(* C10: no state is retained across calls: a list an earlier call returned  *)
(* is not changed by a later call, add_data_image leaves the list it is     *)
(* given unchanged, encode_blocks builds a fresh list, and what a call      *)
(* returns is determined by its arguments, the block-size constant and the  *)
(* ordering drawn in that call.                                             *)
C10_NoRetainedState ==
    /\ kept # 0 => heap[kept] = kept_val
    /\ (op \in {"encode", "add_data_image"}
            /\ pc \in {"adi_gate", "adi_serialize", "adi_hide", "returned", "raised"}
            /\ blocks # 0)
          => heap[blocks] = entry_blocks
    /\ (blocks # 0 /\ op \in {"encode", "encode_blocks"}) => blocks # kept
    /\ (pc = "returned" /\ op = "encode_blocks") =>
          heap[ret_blocks] =
              <<arg_image.size, <<ExpectedS, ExpectedS>> >> \o
              shuffle(create_block_grid(arg_image.size[1], arg_image.size[2], ExpectedS), draw)
    /\ (pc = "returned" /\ op \in {"encode", "add_data_image"}) =>
          ret_image.payload = serialize(entry_blocks)

C10_Witness ==
    /\ pc = "returned" /\ op = "add_data_image"
    /\ kept # 0 /\ blocks = kept
    /\ Len(kept_val) > 3

====
